---- MODULE Spec2Model ----
(***************************************************************************)
(* Model of the interface closure resolver and fast-ABI layout orderer of  *)
(* cppwinrt (src/cppwinrt/helpers.h): get_interfaces, get_interfaces_impl, *)
(* find, insert_or_assign, get_bases, get_version, has_fastabi and         *)
(* is_always_enabled.                                                      *)
(*                                                                         *)
(* One behaviour is one call get_interfaces(w, type).  The metadata the    *)
(* call reads (InterfaceImpl rows, Extends, attributes, settings) is       *)
(* chosen in Init and never changes.  The recursion of get_interfaces_impl *)
(* is an explicit stack of frames; each frame is one activation of the     *)
(* function, with its parameters, its position in the range-for loop and   *)
(* the local 'info' of the iteration that is waiting for the recursive     *)
(* call to return.                                                         *)
(*                                                                         *)
(* Interfaces are numbered 1..NumIfaces.  Interface i stands for one       *)
(* effective (possibly instantiated) interface; the name the writer        *)
(* renders for it is Name(i).  Classes are numbered 0..MaxBases: class 0   *)
(* is the type passed to get_interfaces, class k+1 is what class k         *)
(* extends.  Every type reference resolves (find_required does not throw). *)
(*                                                                         *)
(* Init draws the metadata from two families.  The closure family varies   *)
(* the graph of InterfaceImpl rows (several paths to one interface,        *)
(* default rows before and after non-default ones, cycles, a base chain);  *)
(* the layout family varies the attributes the fast-ABI ordering reads.    *)
(*                                                                         *)
(* std::partial_sort leaves the order of the elements after the sorted     *)
(* part unspecified.  Spec takes every order the C++ standard allows;      *)
(* SpecHeap takes the one order that the heap selection of libstdc++,      *)
(* libc++ and the MSVC STL produces, which is one of those.                *)
(*                                                                         *)
(* The functions built on the result, or next to it, are modelled as calls *)
(* of their own (variable call): get_fastabi_size and get_default_interface*)
(* on the type of the walk (SpecSize, SpecResolve), is_async, get_category,*)
(* is_always_disabled, is_always_enabled and get_factories on a method, a  *)
(* signature or an attribute list drawn in Init (SpecAsync, SpecCategory,  *)
(* SpecAttributes).  An exception is an outcome with raised = TRUE.        *)
(*                                                                         *)
(* A recursive call that would need more than StackLimit frames ends the   *)
(* run in pc = "overflow": the recursion of get_interfaces_impl has        *)
(* re-entered an interface that is still being walked, nothing has been    *)
(* inserted for it in between, and so it re-enters it for ever: the call   *)
(* never returns.                                                          *)
(***************************************************************************)
EXTENDS Integers, Sequences, FiniteSets, TLC

\* ---- bounds ----------------------------------------------------------------
NumIfaces == 3      \* interfaces in the metadata
MaxBases == 1       \* longest base chain of the type

Ifaces == 1..NumIfaces
Classes == 0..MaxBases

\* The call stack holds StackLimit frames; a walk over an acyclic graph never
\* needs more than one frame per interface plus the frame of the class.
StackLimit == NumIfaces + 2

VARIABLES
    classImpl,          \* classImpl[k]: the InterfaceImpl rows of class k, in declaration order
    ifaceImpl,          \* ifaceImpl[i]: the InterfaceImpl rows of interface i
    extends,            \* extends[k]: the Extends column of class k
    exclusiveAttr,      \* exclusiveAttr[i]: interface i carries ExclusiveToAttribute
    versionAttr,        \* versionAttr[i]: the uint32 of the first (Contract)VersionAttribute, 0 if none
    featureAttr,        \* featureAttr[i]: stage of the FeatureAttribute of interface i, "None" if absent
    fastabiAttr,        \* class 0 carries FastAbiAttribute
    settings_fastabi,   \* settings.fastabi
    abi_types,          \* w.abi_types
    depends,            \* the types handed to w.add_depends
    result,             \* get_interfaces_t result
    frames,             \* activations of get_interfaces_impl, innermost last
    bases,              \* the bases get_interfaces has still to walk
    pc,                 \* position in get_interfaces
    call                \* the helper function called on top of the metadata: its
                        \* name, its argument and, once it has returned, its outcome

inputs == <<classImpl, ifaceImpl, extends, exclusiveAttr, versionAttr, featureAttr,
            fastabiAttr, settings_fastabi>>
vars == <<classImpl, ifaceImpl, extends, exclusiveAttr, versionAttr, featureAttr,
          fastabiAttr, settings_fastabi, abi_types, depends, result, frames, bases, pc,
          call>>

\* No helper function has been called.
NoCall == [fn |-> "none"]

\* ---- metadata helpers ------------------------------------------------------

\* An InterfaceImpl row: the interface it names and the attributes on the row.
Impl(i, d, o) == [iface |-> i, is_default |-> d, overridable |-> o]

\* The name w.write_temp("%", type) renders for interface i: injective.
Name(i) == i

\* The coded index of a reference to interface i.
RefKind(i) == IF i % 3 = 1 THEN "TypeDef" ELSE IF i % 3 = 2 THEN "TypeRef" ELSE "TypeSpec"

\* The rendered generic arguments of the instantiation interface i stands for.
GenericArgs(i) == <<i>>

NoExtends == [present |-> FALSE, namespace |-> "", name |-> "", class |-> 0]
ExtendsObject == [present |-> TRUE, namespace |-> "System", name |-> "Object", class |-> 0]
ExtendsClass(k) == [present |-> TRUE, namespace |-> "App", name |-> "Base", class |-> k]

\* get_base_class: 0 stands for the null TypeDef (class 0 is never a base).
get_base_class(k) ==
    LET e == extends[k] IN
    IF ~e.present THEN 0
    ELSE IF e.name = "Object" /\ e.namespace = "System" THEN 0
    ELSE e.class

RECURSIVE BasesFrom(_)
BasesFrom(b) == IF b = 0 THEN <<>> ELSE <<b>> \o BasesFrom(get_base_class(b))

\* get_bases that walks no base.
get_bases_none(k) == <<>>

get_bases(k) == BasesFrom(get_base_class(k))

\* get_version: HIWORD and LOWORD of the attribute value.
get_version(i) == <<(versionAttr[i] \div 65536) % 65536, versionAttr[i] % 65536>>

has_fastabi == settings_fastabi /\ fastabiAttr

is_always_enabled(i) ==
    IF featureAttr[i] = "None" THEN TRUE ELSE featureAttr[i] = "AlwaysEnabled"

\* ---- the result vector -----------------------------------------------------

Indices(s) == 1..Len(s)

\* find: index of the first pair whose name is n, 0 for nullptr.
find(interfaces, n) ==
    IF \E j \in Indices(interfaces) : interfaces[j].name = n
    THEN CHOOSE j \in Indices(interfaces) :
            /\ interfaces[j].name = n
            /\ \A h \in 1..(j - 1) : interfaces[h].name # n
    ELSE 0

\* insert_or_assign without the lookup: always emplace_back.
insert_or_assign_append(interfaces, n, info) == Append(interfaces, info)

insert_or_assign(interfaces, n, info) ==
    LET existing == find(interfaces, n) IN
    IF existing # 0
    THEN [interfaces EXCEPT ![existing] = info]
    ELSE Append(interfaces, info)

NoInfo == [name |-> 0, type |-> 0, is_default |-> FALSE, defaulted |-> FALSE,
           overridable |-> FALSE, base |-> FALSE, exclusive |-> FALSE, fastabi |-> FALSE,
           version |-> <<0, 0>>, generic_param_stack |-> <<>>]

\* ---- get_interfaces_impl ---------------------------------------------------

Frame(children, defaulted, overridable, base, stack) ==
    [children |-> children, idx |-> 1, defaulted |-> defaulted, overridable |-> overridable,
     base |-> base, generic_param_stack |-> stack, info |-> NoInfo]

Top == frames[Len(frames)]
AtImpl == pc = "impl" /\ Top.idx <= Len(Top.children)
CurImpl == Top.children[Top.idx]

\* info.defaulted without the !base conjunct.
NewDefaulted_nobase == Top.defaulted \/ CurImpl.is_default

\* info.defaulted of the iteration at the top frame (line 365).
NewDefaulted == ~Top.base /\ (Top.defaulted \/ CurImpl.is_default)

\* The merge rule left out: no iteration is abandoned.
MergeSkips_never == FALSE

\* A merge rule that abandons every rediscovery, also the defaulted one.
MergeSkips_found == find(result, Name(CurImpl.iface)) # 0

\* A merge rule that abandons only the rediscovery of a defaulted entry.
MergeSkips_defaulted ==
    LET found == find(result, Name(CurImpl.iface)) IN
    found # 0 /\ result[found].defaulted

\* The merge rule (lines 375-381): the iteration is abandoned by 'continue'.
MergeSkips ==
    LET found == find(result, Name(CurImpl.iface)) IN
    found # 0 /\ (result[found].defaulted \/ ~NewDefaulted)

\* The info of the iteration as it is when the recursive call is made (line 425).
NewInfo ==
    LET i == CurImpl.iface IN
    [name |-> Name(i),
     type |-> i,
     is_default |-> CurImpl.is_default,
     defaulted |-> NewDefaulted,
     overridable |-> Top.overridable \/ CurImpl.overridable,
     base |-> Top.base,
     exclusive |-> exclusiveAttr[i],
     fastabi |-> FALSE,
     version |-> get_version(i),
     generic_param_stack |->
        IF RefKind(i) = "TypeSpec"
        THEN Append(Top.generic_param_stack, GenericArgs(i))
        ELSE Top.generic_param_stack]

\* The range handed to the recursive call: info.type.InterfaceImpl() (line 425).
ChildRows_same(i) == Top.children
ChildRows(i) == ifaceImpl[i]

AdvanceTop(fs) == [fs EXCEPT ![Len(fs)].idx = @ + 1, ![Len(fs)].info = NoInfo]

\* get_interfaces entry: lines 432-434.
Begin ==
    /\ pc = "start"
    /\ abi_types' = FALSE
    /\ result' = <<>>
    /\ frames' = <<Frame(classImpl[0], FALSE, FALSE, FALSE, <<>>)>>
    /\ pc' = "impl"
    /\ UNCHANGED <<inputs, call, depends, bases>>

\* One iteration that the merge rule ends with 'continue'.
Skip ==
    /\ AtImpl
    /\ MergeSkips
    /\ frames' = AdvanceTop(frames)
    /\ UNCHANGED <<inputs, call, abi_types, depends, result, bases, pc>>

\* One iteration up to the recursive call on the interface's own rows.
Descend ==
    /\ AtImpl
    /\ ~MergeSkips
    /\ Len(frames) < StackLimit
    /\ LET info == NewInfo IN
        /\ frames' = Append([frames EXCEPT ![Len(frames)].info = info],
                            Frame(ChildRows(info.type), info.defaulted, info.overridable,
                                  Top.base, info.generic_param_stack))
        /\ depends' = IF RefKind(info.type) = "TypeRef" THEN depends \cup {info.type} ELSE depends
    /\ UNCHANGED <<inputs, call, abi_types, result, bases, pc>>

\* The recursive call would need a frame the stack does not have.
Overflow ==
    /\ AtImpl
    /\ ~MergeSkips
    /\ Len(frames) = StackLimit
    /\ pc' = "overflow"
    /\ UNCHANGED <<inputs, call, abi_types, depends, result, frames, bases>>

\* A recursive call returns; the caller's iteration ends with insert_or_assign.
Return ==
    /\ pc = "impl"
    /\ Len(frames) > 1
    /\ Top.idx > Len(Top.children)
    /\ LET callers == SubSeq(frames, 1, Len(frames) - 1)
           info == callers[Len(callers)].info IN
        /\ result' = insert_or_assign(result, info.name, info)
        /\ frames' = AdvanceTop(callers)
    /\ UNCHANGED <<inputs, call, abi_types, depends, bases, pc>>

\* The walk of the type's own rows returns to get_interfaces; get_bases is read.
OwnDone ==
    /\ pc = "impl"
    /\ Len(frames) = 1
    /\ Top.idx > Len(Top.children)
    /\ ~Top.base
    /\ LET bs == get_bases(0) IN
        IF bs = <<>>
        THEN /\ frames' = <<>>
             /\ bases' = <<>>
             /\ pc' = "layout"
        ELSE /\ frames' = <<Frame(classImpl[Head(bs)], FALSE, FALSE, TRUE, <<>>)>>
             /\ bases' = Tail(bs)
             /\ pc' = "impl"
    /\ UNCHANGED <<inputs, call, abi_types, depends, result>>

\* The walk of one base returns to get_interfaces.
BaseDone ==
    /\ pc = "impl"
    /\ Len(frames) = 1
    /\ Top.idx > Len(Top.children)
    /\ Top.base
    /\ IF bases = <<>>
       THEN /\ frames' = <<>>
            /\ bases' = <<>>
            /\ pc' = "layout"
       ELSE /\ frames' = <<Frame(classImpl[Head(bases)], FALSE, FALSE, TRUE, <<>>)>>
            /\ bases' = Tail(bases)
            /\ pc' = "impl"
    /\ UNCHANGED <<inputs, call, abi_types, depends, result>>

\* ---- the fast-ABI ordering of get_interfaces -------------------------------

\* Line 441: the type has no fast ABI, the result is returned as walked.
ReturnUnordered ==
    /\ pc = "layout"
    /\ ~has_fastabi
    /\ pc' = "done"
    /\ UNCHANGED <<inputs, call, abi_types, depends, result, frames, bases>>

\* The predicate of std::count_if (line 448).
Eligible(e) == e.exclusive /\ ~e.base /\ ~e.overridable

count == Cardinality({j \in Indices(result) : Eligible(result[j])})

\* The version comparison turned round.
VersionLess_greater(v1, v2) == v1[1] > v2[1] \/ (v1[1] = v2[1] /\ v1[2] > v2[2])

\* v1 < v2 on std::pair<uint16_t, uint16_t>.
VersionLess(v1, v2) == v1[1] < v2[1] \/ (v1[1] = v2[1] /\ v1[2] < v2[2])

\* The comparator handed to std::partial_sort (lines 451-491).
Less(left, right) ==
    IF left.base # right.base THEN ~left.base
    ELSE IF left.is_default # right.is_default THEN left.is_default
    ELSE IF left.overridable # right.overridable THEN ~left.overridable
    ELSE IF left.exclusive # right.exclusive THEN left.exclusive
    ELSE IF is_always_enabled(left.type) # is_always_enabled(right.type)
         THEN is_always_enabled(left.type)
    ELSE IF left.version # right.version THEN VersionLess(left.version, right.version)
    ELSE left.name < right.name

Range(s) == {s[j] : j \in Indices(s)}

\* The sequences that hold exactly the elements of the set S (all distinct).
Arrangements(S) ==
    {s \in [1..Cardinality(S) -> S] : \A a, b \in 1..Cardinality(S) : a # b => s[a] # s[b]}

\* std::partial_sort(first, first + n, last, Less): the n smallest elements of the
\* whole range come first, in order; the order of the others is unspecified.
PartialSorts(s, n) ==
    {t \in Arrangements(Range(s)) :
        /\ \A a \in 1..n : \A b \in (a + 1)..Len(s) : ~Less(t[b], t[a])}

\* The algorithm behind std::partial_sort in libstdc++, libc++ and the MSVC STL:
\* the first n elements form a heap; each later element that is less than the
\* heap's greatest element changes places with it.  s is the sequence so far,
\* i the position examined next.  Which elements end up among the first n, and
\* what lands at each later position, does not depend on the heap's layout.
RECURSIVE HeapSelect(_, _, _)
HeapSelect(s, n, i) ==
    IF i > Len(s) THEN s
    ELSE LET top == CHOOSE a \in 1..n : \A b \in 1..n : b # a => Less(s[b], s[a])
         IN IF Less(s[i], s[top])
            THEN HeapSelect([s EXCEPT ![i] = s[top], ![top] = s[i]], n, i + 1)
            ELSE HeapSelect(s, n, i + 1)

\* The elements of the set S in Less order (sort_heap on the first n).
RECURSIVE SortedBy(_)
SortedBy(S) ==
    IF S = {} THEN <<>>
    ELSE LET m == CHOOSE x \in S : \A y \in S : y # x => Less(x, y)
         IN <<m>> \o SortedBy(S \ {m})

\* std::partial_sort as those libraries run it; nothing moves when n = 0.
HeapPartialSort(s, n) ==
    IF n = 0 THEN s
    ELSE LET h == HeapSelect(s, n, n + 1)
         IN SortedBy({h[j] : j \in 1..n}) \o SubSeq(h, n + 1, Len(h))

\* for_each over the whole range.
MarkFirst_all(s, n) == [j \in Indices(s) |-> [s[j] EXCEPT !.fastabi = TRUE]]

\* Marking the entries count_if counted, wherever they are.
MarkFirst_eligible(s, n) ==
    [j \in Indices(s) |-> IF Eligible(s[j]) THEN [s[j] EXCEPT !.fastabi = TRUE] ELSE s[j]]

\* std::for_each_n over the first n pairs (lines 493-496).
MarkFirst(s, n) == [j \in Indices(s) |-> IF j <= n THEN [s[j] EXCEPT !.fastabi = TRUE] ELSE s[j]]

\* Lines 446-498: count_if, partial_sort, for_each_n, return.
Order ==
    /\ pc = "layout"
    /\ has_fastabi
    /\ \E t \in PartialSorts(result, count) : result' = MarkFirst(t, count)
    /\ pc' = "done"
    /\ UNCHANGED <<inputs, call, abi_types, depends, frames, bases>>

\* ---- the metadata the call may be given ------------------------------------

\* Sequences of j distinct interfaces.
DistinctSeqs(j) ==
    {s \in [1..j -> Ifaces] : \A a, b \in 1..j : a # b => s[a] # s[b]}

\* The rows of a class over the interfaces of s, the row at position d (if any)
\* carrying DefaultAttribute.
ClassRows(s, d) == [j \in 1..Len(s) |-> Impl(s[j], j = d, FALSE)]

\* The interfaces of the set S in ascending order.
RECURSIVE Ascending(_)
Ascending(S) ==
    IF S = {} THEN <<>>
    ELSE LET m == CHOOSE x \in S : \A y \in S : x <= y
         IN <<m>> \o Ascending(S \ {m})

\* The rows of interface i when the requirement edges are req and the edges in
\* dflt carry DefaultAttribute.
IfaceRows(req, dflt, i) ==
    LET targets == Ascending({e[2] : e \in {r \in req : r[1] = i}})
    IN [j \in 1..Len(targets) |-> Impl(targets[j], <<i, targets[j]>> \in dflt, FALSE)]

\* Widths of the closure family.
OwnLengths == 0..2
ReqSizes == 0..2

\* The base chain of class 0 has n classes and ends in last.
Chain(n, last) ==
    [k \in Classes |-> IF k < n THEN ExtendsClass(k + 1) ELSE IF k = n THEN last ELSE NoExtends]

\* The interface graph varies (requirement sets of the sizes given); every
\* interface is exclusive, unversioned and ungated.
ClosureGraph(sizes) ==
    /\ \E n \in 0..MaxBases :
        /\ extends = Chain(n, ExtendsObject)
        /\ \E j \in OwnLengths : \E s \in DistinctSeqs(j) : \E d \in 0..j :
              classImpl = [k \in Classes |->
                              IF k = 0 THEN ClassRows(s, d)
                              ELSE IF k <= n THEN <<Impl(((k - 1) % NumIfaces) + 1, TRUE, FALSE)>>
                              ELSE <<>>]
    /\ \E req \in {r \in SUBSET (Ifaces \X Ifaces) : Cardinality(r) \in sizes} :
       \E dflt \in {r \in SUBSET req : Cardinality(r) <= 1} :
          ifaceImpl = [i \in Ifaces |-> IfaceRows(req, dflt, i)]
    /\ exclusiveAttr = [i \in Ifaces |-> TRUE]
    /\ versionAttr = [i \in Ifaces |-> 0]
    /\ featureAttr = [i \in Ifaces |-> "None"]

\* The closure family: the type carries FastAbiAttribute and settings.fastabi
\* is off.
InitClosure ==
    /\ ClosureGraph(ReqSizes)
    /\ settings_fastabi = FALSE
    /\ fastabiAttr = TRUE

\* What one interface looks like in the layout family: the attributes of the
\* row that names it and of its definition.
Profile(d, o, x, f, v) ==
    [is_default |-> d, overridable |-> o, exclusive |-> x, feature |-> f, version |-> v]

Profiles ==
    { Profile(FALSE, FALSE, TRUE, "None", 65536),
      Profile(TRUE, FALSE, TRUE, "None", 65536),
      Profile(FALSE, FALSE, FALSE, "None", 65536),
      Profile(TRUE, FALSE, FALSE, "None", 65536),
      Profile(FALSE, TRUE, TRUE, "None", 65536),
      Profile(TRUE, TRUE, TRUE, "None", 65536),
      Profile(FALSE, FALSE, TRUE, "AlwaysDisabled", 65536),
      Profile(FALSE, FALSE, TRUE, "AlwaysEnabled", 65536),
      Profile(FALSE, FALSE, TRUE, "None", 65537),
      Profile(FALSE, FALSE, TRUE, "None", 65538) }

Plain == Profile(FALSE, FALSE, TRUE, "None", 65536)

\* The layout family: no interface requires another; every interface is a row
\* of the type or, for the last n in walk order, of one of its n bases.  The
\* attributes vary (at most three interfaces differ from the plain profile),
\* settings.fastabi is on and the type may carry FastAbiAttribute.
InitLayout ==
    /\ \E n \in 0..MaxBases :
       \E order \in {[j \in Ifaces |-> j], [j \in Ifaces |-> NumIfaces + 1 - j]} :
       \E prof \in {f \in [Ifaces -> Profiles] : Cardinality({i \in Ifaces : f[i] # Plain}) <= 3} :
          LET Row(j) == Impl(order[j], prof[order[j]].is_default, prof[order[j]].overridable)
          IN /\ n < NumIfaces
             /\ extends = Chain(n, IF n = 0 THEN NoExtends ELSE ExtendsObject)
             /\ classImpl = [k \in Classes |->
                                IF k = 0 THEN [j \in 1..(NumIfaces - n) |-> Row(j)]
                                ELSE IF k <= n THEN <<Row(NumIfaces - n + k)>>
                                ELSE <<>>]
             /\ exclusiveAttr = [i \in Ifaces |-> prof[i].exclusive]
             /\ versionAttr = [i \in Ifaces |-> prof[i].version]
             /\ featureAttr = [i \in Ifaces |-> prof[i].feature]
    /\ ifaceImpl = [i \in Ifaces |-> <<>>]
    /\ settings_fastabi = TRUE
    /\ fastabiAttr \in BOOLEAN

Init ==
    /\ InitClosure \/ InitLayout
    /\ abi_types = TRUE
    /\ depends = {}
    /\ result = <<>>
    /\ frames = <<>>
    /\ bases = <<>>
    /\ pc = "start"
    /\ call = NoCall

\* Lines 446-498 with std::partial_sort run as the heap selection.
OrderHeap ==
    /\ pc = "layout"
    /\ has_fastabi
    /\ result' = MarkFirst(HeapPartialSort(result, count), count)
    /\ pc' = "done"
    /\ UNCHANGED <<inputs, call, abi_types, depends, frames, bases>>

Next ==
    \/ Begin
    \/ Skip
    \/ Descend
    \/ Overflow
    \/ Return
    \/ OwnDone
    \/ BaseDone
    \/ ReturnUnordered
    \/ Order

Spec == Init /\ [][Next]_vars

NextHeap ==
    \/ Begin
    \/ Skip
    \/ Descend
    \/ Overflow
    \/ Return
    \/ OwnDone
    \/ BaseDone
    \/ ReturnUnordered
    \/ OrderHeap

\* The same program with std::partial_sort as the standard libraries run it.
SpecHeap == Init /\ [][NextHeap]_vars

FairSpec == Init /\ [][Next]_vars /\ WF_vars(Next)

\* ---- get_fastabi_size ------------------------------------------------------

\* size(info.type.MethodList()) for every interface.  Only get_fastabi_size
\* reads the method lists, so they are drawn where it reads them: no methods,
\* one method each, or 2^(i-1) methods in interface i (a sum of those tells
\* which interfaces were counted).
MethodLists ==
    {[i \in Ifaces |-> 0], [i \in Ifaces |-> 1], [i \in Ifaces |-> 2 ^ (i - 1)]}

\* The loop without its break: every entry is counted.
RECURSIVE SumWhileFastabi_all(_, _, _)
SumWhileFastabi_all(s, m, j) ==
    IF j > Len(s) THEN 0
    ELSE m[s[j].type] + SumWhileFastabi_all(s, m, j + 1)

\* The range-for of lines 546-554 from entry j on: it breaks at the first
\* entry whose fastabi flag is off.
RECURSIVE SumWhileFastabi(_, _, _)
SumWhileFastabi(s, m, j) ==
    IF j > Len(s) THEN 0
    ELSE IF ~s[j].fastabi THEN 0
    ELSE m[s[j].type] + SumWhileFastabi(s, m, j + 1)

\* get_fastabi_size(w, type), lines 537-557, with get_interfaces(w, type) = s.
get_fastabi_size(s, m) ==
    IF ~has_fastabi THEN 0
    ELSE 6 + Len(get_bases(0)) + SumWhileFastabi(s, m, 1)

SizeCall(m, n) == [fn |-> "get_fastabi_size", methods |-> m, ret |-> n]

\* Lines 539-542: the type has no fast ABI; get_interfaces is not called.
SizeZero ==
    /\ pc = "start"
    /\ ~has_fastabi
    /\ \E m \in MethodLists : call' = SizeCall(m, get_fastabi_size(result, m))
    /\ pc' = "sized"
    /\ UNCHANGED <<inputs, abi_types, depends, result, frames, bases>>

\* Line 546: the call of get_interfaces.
BeginSize ==
    /\ has_fastabi
    /\ Begin

\* Lines 544-556 once get_interfaces has returned.
SizeSum ==
    /\ pc = "done"
    /\ \E m \in MethodLists : call' = SizeCall(m, get_fastabi_size(result, m))
    /\ pc' = "sized"
    /\ UNCHANGED <<inputs, abi_types, depends, result, frames, bases>>

NextSize ==
    \/ SizeZero
    \/ BeginSize
    \/ Skip
    \/ Descend
    \/ Overflow
    \/ Return
    \/ OwnDone
    \/ BaseDone
    \/ Order
    \/ SizeSum

\* The types the functions built on the type's rows are called on: those of
\* the layout family, and types with fast ABI whose interfaces require one
\* another.
InitHelper ==
    /\ \/ InitLayout
       \/ /\ ClosureGraph(0..1)
          /\ settings_fastabi = TRUE
          /\ fastabiAttr = TRUE
    /\ abi_types = TRUE
    /\ depends = {}
    /\ result = <<>>
    /\ frames = <<>>
    /\ bases = <<>>
    /\ pc = "start"
    /\ call = NoCall

\* One behaviour is one call get_fastabi_size(w, type).
SpecSize == InitHelper /\ [][NextSize]_vars

\* ---- signatures ------------------------------------------------------------

\* The functions below read one method, signature or attribute list and no
\* InterfaceImpl row: the type metadata is empty while they run.
NoMetadata ==
    /\ classImpl = [k \in Classes |-> <<>>]
    /\ ifaceImpl = [i \in Ifaces |-> <<>>]
    /\ extends = [k \in Classes |-> NoExtends]
    /\ exclusiveAttr = [i \in Ifaces |-> FALSE]
    /\ versionAttr = [i \in Ifaces |-> 0]
    /\ featureAttr = [i \in Ifaces |-> "None"]
    /\ fastabiAttr = FALSE
    /\ settings_fastabi = FALSE
    /\ abi_types = TRUE
    /\ depends = {}
    /\ result = <<>>
    /\ frames = <<>>
    /\ bases = <<>>

\* A TypeSig: is_szarray() and the alternative held by Type().  element is the
\* ElementType; kind, namespace and name are those of the coded_index<TypeDefOrRef>
\* (for a GenericTypeInstSig: of its GenericType()); target is the category of
\* the TypeDef, or of the TypeDef a TypeRef resolves to ("missing" if none).
TypeSig(array, alt, element, kind, namespace, name, target) ==
    [is_szarray |-> array, alt |-> alt, element |-> element, kind |-> kind,
     namespace |-> namespace, name |-> name, target |-> target]

ElementSigs(elements) ==
    {TypeSig(a, "ElementType", e, "", "", "", "") : a \in BOOLEAN, e \in elements}

TypeDefOrRefSigs(kinds, namespaces, names, targets) ==
    {TypeSig(a, "TypeDefOrRef", "", k, ns, nm, tg) :
        a \in BOOLEAN, k \in kinds, ns \in namespaces, nm \in names, tg \in targets}

GenericTypeInstSigs(namespaces, names) ==
    {TypeSig(a, "GenericTypeInstSig", "", "TypeRef", ns, nm, "interface") :
        a \in BOOLEAN, ns \in namespaces, nm \in names}

\* GenericTypeIndex and GenericMethodTypeIndex: an unbound generic parameter.
GenericIndexSigs ==
    {TypeSig(a, alt, "", "", "", "", "") :
        a \in BOOLEAN, alt \in {"GenericTypeIndex", "GenericMethodTypeIndex"}}

\* ---- method_signature::is_async --------------------------------------------

\* A type name of the metadata: Generic(base, n) is the name written base, a
\* backquote and the number n of generic parameters; TypeName(base) has no such
\* suffix.
Generic(base, n) == <<base, n>>
TypeName(base) == <<base, 0>>

\* Method names are sequences of characters.
put_ == <<"p", "u", "t", "_">>

\* starts_with(value, match): value begins with the characters of match.
starts_with(value, match) ==
    Len(value) >= Len(match) /\ SubSeq(value, 1, Len(match)) = match

\* Lines 15-18.
is_put_overload(method) == method.SpecialName /\ starts_with(method.Name, put_)

\* No return type: m_signature.ReturnType() is false.
Void == TypeSig(FALSE, "void", "", "", "", "", "")

\* Lines 76-117; the call dispatches on ReturnType().Type().Type() alone.
is_async(method) ==
    IF is_put_overload(method) THEN TRUE
    ELSE IF method.ReturnType = Void THEN FALSE
    ELSE LET type == method.ReturnType IN
         IF type.alt = "TypeDefOrRef"
         THEN type.namespace = "Windows.Foundation" /\ type.name = TypeName("IAsyncAction")
         ELSE IF type.alt = "GenericTypeInstSig"
         THEN IF type.namespace = "Windows.Foundation"
              THEN \/ type.name = Generic("IAsyncOperation", 1)
                   \/ type.name = Generic("IAsyncActionWithProgress", 1)
                   \/ type.name = Generic("IAsyncOperationWithProgress", 2)
              ELSE FALSE
         ELSE FALSE

MethodNames ==
    { <<"p", "u", "t", "_", "X">>, put_, <<"p", "u", "t">>,
      <<"g", "e", "t", "_", "X">>, <<"i", "n", "p", "u", "t", "_">> }

AsyncNamespaces == {"Windows.Foundation", "Windows.Foundation.Collections", "Contoso"}

AsyncNames ==
    { TypeName("IAsyncAction"), Generic("IAsyncAction", 1),
      Generic("IAsyncOperation", 1), TypeName("IAsyncOperation"),
      Generic("IAsyncActionWithProgress", 1),
      Generic("IAsyncOperationWithProgress", 2), Generic("IAsyncOperationWithProgress", 1),
      TypeName("Point"), Generic("IVector", 1) }

\* The return types of the methods is_async is asked about.
ReturnTypes ==
    {Void}
    \cup ElementSigs({"Int32", "String", "Object"})
    \cup TypeDefOrRefSigs({"TypeRef"}, AsyncNamespaces, AsyncNames, {"interface", "struct"})
    \cup GenericTypeInstSigs(AsyncNamespaces, AsyncNames)
    \cup GenericIndexSigs

Methods ==
    [SpecialName : BOOLEAN, Name : MethodNames, ReturnType : ReturnTypes]

InitAsync ==
    /\ NoMetadata
    /\ pc = "call"
    /\ \E method \in Methods : call = [fn |-> "is_async", method |-> method, ret |-> FALSE]

\* method_signature::is_async() on the method the signature was made from.
IsAsync ==
    /\ pc = "call"
    /\ call.fn = "is_async"
    /\ call' = [call EXCEPT !.ret = is_async(call.method)]
    /\ pc' = "returned"
    /\ UNCHANGED <<inputs, abi_types, depends, result, frames, bases>>

NextAsync == IsAsync

\* One behaviour is one call of is_async.
SpecAsync == InitAsync /\ [][NextAsync]_vars

\* ---- get_category ----------------------------------------------------------

\* enum class param_category, lines 651-660, in declaration order.
param_category ==
    <<"generic_type", "object_type", "string_type", "enum_type", "struct_type",
      "array_type", "fundamental_type">>

\* The categories of a TypeDef (category::..._type, lines 715-724).
TypeCategories == {"interface", "class", "delegate", "struct", "enum"}

\* type_name(type): the namespace and the name of the type.
type_name(type) == <<type.namespace, type.name>>

SystemGuid == <<"System", TypeName("Guid")>>

\* find_required(type_ref): the TypeDef the reference names (here: its
\* category); it throws when the cache holds no such type.
find_required(type_ref) ==
    IF type_ref.target = "missing"
    THEN [thrown |-> TRUE, type_def |-> "none"]
    ELSE [thrown |-> FALSE, type_def |-> type_ref.target]

\* What a call of get_category leaves: an exception, or the value returned and
\* what *signature_type holds ("unset": not written, "none": no pointer given).
Thrown == [raised |-> TRUE, category |-> "none", signature_type |-> "none"]
Returned(category, type_def) ==
    [raised |-> FALSE, category |-> category, signature_type |-> type_def]

\* Lines 697-703 without the test for System.Guid.
IsGuidRef_never(type) == FALSE

\* Lines 697-703: a TypeRef named System.Guid.
IsGuidRef(type) == type.kind # "TypeDef" /\ type_name(type) = SystemGuid

\* Lines 713-726: the switch over get_category(type_def); result keeps its
\* initial value param_category{} when no case is taken.
CategoryOf(type_def) ==
    IF type_def \in {"interface", "class", "delegate"} THEN "object_type"
    ELSE IF type_def = "struct" THEN "struct_type"
    ELSE IF type_def = "enum" THEN "enum_type"
    ELSE param_category[1]

\* get_category(signature, signature_type), lines 662-738; given says whether
\* signature_type is a pointer to a TypeDef or nullptr.
get_category(signature, given) ==
    LET untouched == IF given THEN "unset" ELSE "none" IN
    IF signature.is_szarray THEN Returned("array_type", untouched)
    ELSE IF signature.alt = "ElementType"
    THEN IF signature.element = "String" THEN Returned("string_type", untouched)
         ELSE IF signature.element = "Object" THEN Returned("object_type", untouched)
         ELSE Returned("fundamental_type", untouched)
    ELSE IF signature.alt = "TypeDefOrRef"
    THEN IF IsGuidRef(signature) THEN Returned("struct_type", untouched)
         ELSE LET found == IF signature.kind = "TypeDef"
                           THEN [thrown |-> FALSE, type_def |-> signature.target]
                           ELSE find_required(signature)
              IN IF found.thrown THEN Thrown
                 ELSE Returned(CategoryOf(found.type_def),
                               IF given THEN found.type_def ELSE "none")
    ELSE IF signature.alt = "GenericTypeInstSig" THEN Returned("object_type", untouched)
    ELSE Returned(param_category[1], untouched)

\* The signatures get_category is asked about.
Signatures ==
    ElementSigs({"String", "Object", "Int32", "Boolean"})
    \cup TypeDefOrRefSigs({"TypeDef"}, {"Contoso"}, {TypeName("Thing")}, TypeCategories)
    \cup TypeDefOrRefSigs({"TypeRef"}, {"System", "Contoso"}, {TypeName("Guid"), TypeName("Thing")},
                          TypeCategories \cup {"missing"})
    \cup GenericTypeInstSigs({"Windows.Foundation.Collections"}, {Generic("IVector", 1)})
    \cup GenericIndexSigs

InitCategory ==
    /\ NoMetadata
    /\ pc = "call"
    /\ \E signature \in Signatures : \E given \in BOOLEAN :
          call = [fn |-> "get_category", signature |-> signature, given |-> given,
                  ret |-> Returned("none", "none")]

GetCategory ==
    /\ pc = "call"
    /\ call.fn = "get_category"
    /\ call' = [call EXCEPT !.ret = get_category(call.signature, call.given)]
    /\ pc' = "returned"
    /\ UNCHANGED <<inputs, abi_types, depends, result, frames, bases>>

NextCategory == GetCategory

\* One behaviour is one call of get_category.
SpecCategory == InitCategory /\ [][NextCategory]_vars

\* ---- attributes: is_always_disabled, is_always_enabled, get_factories -------

Metadata == "Windows.Foundation.Metadata"

\* A fixed argument of a custom attribute: the alternative its ElemSig holds
\* and the value (the type named, the enumerator with its int32, a number).
SystemType(name) == [alt |-> "SystemType", name |-> name, value |-> 0]
EnumValue(name, value) == [alt |-> "EnumValue", name |-> name, value |-> value]
UInt32(value) == [alt |-> "UInt32", name |-> "", value |-> value]

CustomAttribute(namespace, name, args) ==
    [namespace |-> namespace, name |-> name, FixedArgs |-> args]

\* A call that ends in an exception (no value: v is a placeholder of the type
\* returned), and one that returns a value.
Raise(v) == [raised |-> TRUE, value |-> v]
Value(v) == [raised |-> FALSE, value |-> v]

\* get_attribute(type, namespace, name): the first such attribute of the type,
\* as a sequence of at most one attribute (empty: the null attribute).
get_attribute(attributes, namespace, name) ==
    LET hits == {j \in Indices(attributes) :
                    attributes[j].namespace = namespace /\ attributes[j].name = name}
    IN IF hits = {} THEN <<>>
       ELSE <<attributes[CHOOSE j \in hits : \A h \in hits : j <= h]>>

FeatureStages == {EnumValue("AlwaysDisabled", 0), EnumValue("AlwaysEnabled", 3)}

\* get_attribute_value<ElemSig::EnumValue>(attribute, arg), lines 151-155: the
\* outcomes of the call.  FixedArgs()[arg] past the end of the vector is
\* undefined: the call may end abnormally or yield whatever is read there.
\* std::get on an argument that holds another alternative throws.
get_attribute_value(attribute, arg) ==
    IF arg + 1 > Len(attribute.FixedArgs)
    THEN {Raise(UInt32(0))} \cup {Value(stage) : stage \in FeatureStages}
    ELSE IF attribute.FixedArgs[arg + 1].alt = "EnumValue"
    THEN {Value(attribute.FixedArgs[arg + 1])}
    ELSE {Raise(UInt32(0))}

\* The outcomes of stage.equals_enumerator(name) over the outcomes of reading
\* the stage.
EqualsEnumerator(stages, name) ==
    {IF s.raised THEN Raise(FALSE) ELSE Value(s.value.name = name) : s \in stages}

\* is_always_disabled(type), lines 206-222: its outcomes.
is_always_disabled(component_ignore_velocity, attributes) ==
    IF component_ignore_velocity THEN {Value(FALSE)}
    ELSE LET feature == get_attribute(attributes, Metadata, "FeatureAttribute") IN
         IF feature = <<>> THEN {Value(FALSE)}
         ELSE EqualsEnumerator(get_attribute_value(feature[1], 0), "AlwaysDisabled")

\* is_always_enabled(type), lines 224-235, over the attributes of the type.
is_always_enabled_type(attributes) ==
    LET feature == get_attribute(attributes, Metadata, "FeatureAttribute") IN
    IF feature = <<>> THEN {Value(TRUE)}
    ELSE EqualsEnumerator(get_attribute_value(feature[1], 0), "AlwaysEnabled")

\* struct factory_info, lines 571-578; type is the rendered name of the factory
\* interface, "" for the null TypeDef.
factory_info(type, activatable, statics, composable, visible) ==
    [type |-> type, activatable |-> activatable, statics |-> statics,
     composable |-> composable, visible |-> visible]

\* The lambda get_system_type, lines 582-593: the type named by the first
\* SystemType argument, or the null TypeDef.
get_system_type(signature) ==
    LET hits == {j \in Indices(signature) : signature[j].alt = "SystemType"}
    IN IF hits = {} THEN ""
       ELSE signature[CHOOSE j \in hits : \A h \in hits : j <= h].name

\* Lines 618-625: the first EnumValue argument is the visibility, 2 is public.
IsVisible(signature) ==
    LET hits == {j \in Indices(signature) : signature[j].alt = "EnumValue"}
    IN IF hits = {} THEN FALSE
       ELSE signature[CHOOSE j \in hits : \A h \in hits : j <= h].value = 2

\* result[name] = std::move(info) on a std::map (line 645).
MapAssign(map, name, info) ==
    [n \in DOMAIN map \cup {name} |-> IF n = name THEN info ELSE map[n]]

\* get_factories(w, type), lines 580-649: the loop from attribute j on, with
\* the map built so far.
RECURSIVE FactoriesFrom(_, _, _)
FactoriesFrom(attributes, j, map) ==
    IF j > Len(attributes) THEN map
    ELSE LET attribute == attributes[j]
             signature == attribute.FixedArgs
             type == get_system_type(signature)
         IN IF attribute.namespace # Metadata
            THEN FactoriesFrom(attributes, j + 1, map)
            ELSE IF attribute.name = "ActivatableAttribute"
            THEN FactoriesFrom(attributes, j + 1,
                    MapAssign(map, type, factory_info(type, TRUE, FALSE, FALSE, FALSE)))
            ELSE IF attribute.name = "StaticAttribute"
            THEN FactoriesFrom(attributes, j + 1,
                    MapAssign(map, type, factory_info(type, FALSE, TRUE, FALSE, FALSE)))
            ELSE IF attribute.name = "ComposableAttribute"
            THEN FactoriesFrom(attributes, j + 1,
                    MapAssign(map, type,
                              factory_info(type, FALSE, FALSE, TRUE, IsVisible(signature))))
            ELSE FactoriesFrom(attributes, j + 1, map)

NoFactories == [n \in {} |-> factory_info("", FALSE, FALSE, FALSE, FALSE)]

get_factories(attributes) == {Value(FactoriesFrom(attributes, 1, NoFactories))}

\* The attributes a type may carry.
AttributePool ==
    { CustomAttribute(Metadata, "ActivatableAttribute", <<UInt32(1)>>),
      CustomAttribute(Metadata, "ActivatableAttribute", <<SystemType("IWidgetFactory"), UInt32(1)>>),
      CustomAttribute(Metadata, "StaticAttribute", <<UInt32(1)>>),
      CustomAttribute(Metadata, "StaticAttribute", <<SystemType("IWidgetStatics"), UInt32(1)>>),
      CustomAttribute(Metadata, "ComposableAttribute", <<EnumValue("Public", 2), UInt32(1)>>),
      CustomAttribute(Metadata, "ComposableAttribute",
                      <<SystemType("IWidgetFactory"), EnumValue("Public", 2), UInt32(1)>>),
      CustomAttribute(Metadata, "ComposableAttribute",
                      <<SystemType("IWidgetFactory"), EnumValue("Protected", 1), UInt32(1)>>),
      CustomAttribute(Metadata, "FeatureAttribute", <<>>),
      CustomAttribute(Metadata, "FeatureAttribute", <<UInt32(1)>>),
      CustomAttribute(Metadata, "FeatureAttribute", <<EnumValue("AlwaysDisabled", 0), UInt32(1)>>),
      CustomAttribute(Metadata, "FeatureAttribute", <<EnumValue("AlwaysEnabled", 3), UInt32(1)>>),
      CustomAttribute(Metadata, "MarshalingBehaviorAttribute", <<EnumValue("Agile", 2)>>),
      CustomAttribute("Contoso", "ActivatableAttribute", <<SystemType("IWidgetFactory")>>) }

\* type.CustomAttribute(): no, one or two attributes.
AttributeLists ==
    {<<>>} \cup {<<a>> : a \in AttributePool} \cup {<<a, b>> : a \in AttributePool, b \in AttributePool}

AttributeCall(fn, ignore, attributes, ret) ==
    [fn |-> fn, component_ignore_velocity |-> ignore, attributes |-> attributes, ret |-> ret]

InitAttributes ==
    /\ NoMetadata
    /\ pc = "call"
    /\ \E fn \in {"is_always_disabled", "is_always_enabled", "get_factories"} :
       \E ignore \in BOOLEAN :
       \E attributes \in AttributeLists :
          call = AttributeCall(fn, ignore, attributes,
                               IF fn = "get_factories" THEN Value(NoFactories) ELSE Value(FALSE))

IsAlwaysDisabled ==
    /\ pc = "call"
    /\ call.fn = "is_always_disabled"
    /\ \E ret \in is_always_disabled(call.component_ignore_velocity, call.attributes) :
          call' = [call EXCEPT !.ret = ret]
    /\ pc' = "returned"
    /\ UNCHANGED <<inputs, abi_types, depends, result, frames, bases>>

IsAlwaysEnabled ==
    /\ pc = "call"
    /\ call.fn = "is_always_enabled"
    /\ \E ret \in is_always_enabled_type(call.attributes) : call' = [call EXCEPT !.ret = ret]
    /\ pc' = "returned"
    /\ UNCHANGED <<inputs, abi_types, depends, result, frames, bases>>

GetFactories ==
    /\ pc = "call"
    /\ call.fn = "get_factories"
    /\ \E ret \in get_factories(call.attributes) : call' = [call EXCEPT !.ret = ret]
    /\ pc' = "returned"
    /\ UNCHANGED <<inputs, abi_types, depends, result, frames, bases>>

NextAttributes ==
    \/ IsAlwaysDisabled
    \/ IsAlwaysEnabled
    \/ GetFactories

\* One behaviour is one call of one of the three functions on a type.
SpecAttributes == InitAttributes /\ [][NextAttributes]_vars

\* ---- get_default_interface -------------------------------------------------

\* The rows that carry DefaultAttribute.
DefaultRows(impls) == {j \in Indices(impls) : impls[j].is_default}

\* The loop taking the last such row.
FirstDefault_last(impls) ==
    CHOOSE j \in DefaultRows(impls) : \A h \in DefaultRows(impls) : j >= h

\* Lines 241-247: the loop returns at the first row with DefaultAttribute.
FirstDefault(impls) ==
    CHOOSE j \in DefaultRows(impls) : \A h \in DefaultRows(impls) : j <= h

\* throw_invalid(pieces...): an exception whose message is the pieces put
\* together (kept apart here, in order).
throw_invalid(message) == [raised |-> TRUE, message |-> message, value |-> 0]

\* A coded_index<TypeDefOrRef> returned; 0 is the null index.
ReturnIndex(i) == [raised |-> FALSE, message |-> <<>>, value |-> i]

\* get_default_interface(type), lines 237-255.
get_default_interface(type) ==
    LET impls == type.InterfaceImpl IN
    IF DefaultRows(impls) # {} THEN ReturnIndex(impls[FirstDefault(impls)].iface)
    ELSE IF impls # <<>>
    THEN throw_invalid(<<"Type '", type.TypeNamespace, ".", type.TypeName,
                         "' does not have a default interface">>)
    ELSE ReturnIndex(0)

TypeNamespaces == {"Contoso", "Contoso.Controls"}
TypeNames == {"Widget", "Control"}

\* get_default_interface on the type whose rows are classImpl[0]; its
\* namespace and name are read only here.
GetDefaultInterface ==
    /\ pc = "start"
    /\ \E ns \in TypeNamespaces : \E nm \in TypeNames :
          LET type == [TypeNamespace |-> ns, TypeName |-> nm, InterfaceImpl |-> classImpl[0]]
          IN call' = [fn |-> "get_default_interface", type |-> type,
                      ret |-> get_default_interface(type)]
    /\ pc' = "returned"
    /\ UNCHANGED <<inputs, abi_types, depends, result, frames, bases>>

NextResolve ==
    \/ GetDefaultInterface
    \/ Begin
    \/ Skip
    \/ Descend
    \/ Overflow
    \/ Return
    \/ OwnDone
    \/ BaseDone
    \/ ReturnUnordered
    \/ Order

\* One behaviour is one call on a type: get_default_interface(type) or
\* get_interfaces(w, type).
SpecResolve == InitHelper /\ [][NextResolve]_vars

\* ---- what the metadata says, read off the inputs ---------------------------

Targets(rows) == {rows[j].iface : j \in Indices(rows)}

\* The interfaces reachable from those of S along InterfaceImpl rows.
RECURSIVE Closure(_)
Closure(S) ==
    LET T == S \cup UNION {Targets(ifaceImpl[i]) : i \in S}
    IN IF T = S THEN S ELSE Closure(T)

\* The classes of the base chain of class k, read off the Extends column.
RECURSIVE AncestorsOf(_)
AncestorsOf(k) ==
    IF extends[k].present /\ ~(extends[k].namespace = "System" /\ extends[k].name = "Object")
    THEN {extends[k].class} \cup AncestorsOf(extends[k].class)
    ELSE {}

OwnReach == Closure(Targets(classImpl[0]))
BaseReach == Closure(UNION {Targets(classImpl[k]) : k \in AncestorsOf(0)})
AllReach == OwnReach \cup BaseReach

\* Reachable from the type's own rows along a path with a default-marked row.
DefaultReach ==
    Closure({classImpl[0][j].iface : j \in {h \in Indices(classImpl[0]) : classImpl[0][h].is_default}}
            \cup UNION {{ifaceImpl[i][j].iface :
                            j \in {h \in Indices(ifaceImpl[i]) : ifaceImpl[i][h].is_default}} :
                        i \in OwnReach})

\* No interface the walk can reach requires itself, directly or indirectly.
AcyclicRequires == \A i \in AllReach : i \notin Closure(Targets(ifaceImpl[i]))

Keys(s) == {s[j].name : j \in Indices(s)}
HasEntry(i) == Name(i) \in Keys(result)
Entry(i) == result[CHOOSE j \in Indices(result) : result[j].name = Name(i)]

\* ---- C1 --------------------------------------------------------------------

\* C1 (dedup invariant): in every state of a run of get_interfaces, during the
\* own walk, the base walks and after the fast-ABI ordering, no two entries of
\* result carry the same rendered name.
C1_NoDuplicateKeys ==
    \A a, b \in Indices(result) : a # b => result[a].name # result[b].name

\* The rows of the walked metadata that name interface i.
RowsNaming(i) ==
    LET ClassHits(k) == {h \in Indices(classImpl[k]) : classImpl[k][h].iface = i}
        IfaceHits(o) == {h \in Indices(ifaceImpl[o]) : ifaceImpl[o][h].iface = i}
    IN UNION ({{<<"class", k, j>> : j \in ClassHits(k)} : k \in {0} \cup AncestorsOf(0)}
              \cup {{<<"iface", o, j>> : j \in IfaceHits(o)} : o \in AllReach})

\* A finished run over a graph in which some interface is named by several rows.
C1_Witness ==
    /\ pc = "done"
    /\ \E i \in Ifaces : HasEntry(i) /\ Cardinality(RowsNaming(i)) >= 2

\* ---- C2 --------------------------------------------------------------------

\* C2 (monotonic defaultedness): no step of a run takes an entry whose
\* defaulted flag is true to a result in which the entry of that key is absent
\* or has defaulted = false.
C2_DefaultedStays ==
    [][\A a \in Indices(result) :
          result[a].defaulted =>
             \E b \in Indices(result') :
                result'[b].name = result[a].name /\ result'[b].defaulted]_vars

\* A finished run in which a row of the type that is not marked default names
\* an interface whose entry is defaulted: a merge for that key came after or
\* before the defaulted discovery and the flag is still true.
C2_Witness ==
    /\ pc = "done"
    /\ \E j \in Indices(classImpl[0]) :
          /\ ~classImpl[0][j].is_default
          /\ \E h \in 1..(j - 1) : classImpl[0][h].is_default
          /\ HasEntry(classImpl[0][j].iface)
          /\ Entry(classImpl[0][j].iface).defaulted

\* ---- C3 --------------------------------------------------------------------

\* C3 (closure completeness): the keys get_interfaces returns are exactly the
\* names of the interfaces reachable along InterfaceImpl rows from the rows of
\* the type or of a class of its base chain.
C3_ClosureComplete ==
    pc = "done" => Keys(result) = {Name(i) : i \in AllReach}

\* A finished run with a base, an interface reached both from the type and from
\* the base, and an interface no class names directly.
C3_Witness ==
    /\ pc = "done"
    /\ AncestorsOf(0) # {}
    /\ OwnReach \cap BaseReach # {}
    /\ AllReach \ UNION {Targets(classImpl[k]) : k \in Classes} # {}

\* ---- C4 --------------------------------------------------------------------

\* C4 (order-independent upgrade): when get_interfaces returns, an entry has
\* defaulted = true exactly if its interface is reachable from the type's own
\* rows along a path that holds a default-marked row.
C4_DefaultedIffDefaultPath ==
    pc = "done" =>
        \A j \in Indices(result) : result[j].defaulted <=> (result[j].type \in DefaultReach)

\* A finished run in which the first row of the type is not default, a later
\* default row names an interface that requires the first row's interface, and
\* the entry of the first row's interface is defaulted: it was upgraded.
C4_Witness ==
    /\ pc = "done"
    /\ Len(classImpl[0]) = 2
    /\ ~classImpl[0][1].is_default
    /\ classImpl[0][2].is_default
    /\ classImpl[0][1].iface \in Targets(ifaceImpl[classImpl[0][2].iface])
    /\ \A i \in Ifaces : \A h \in Indices(ifaceImpl[i]) : ~ifaceImpl[i][h].is_default
    /\ Entry(classImpl[0][1].iface).defaulted

\* ---- C5 --------------------------------------------------------------------

\* Widget implements IWidget (interface 2, default) and extends Control, which
\* implements IControl (interface 1, default); no interface requires another.
WidgetScenario ==
    /\ classImpl[0] = <<Impl(2, TRUE, FALSE)>>
    /\ extends[0] = ExtendsClass(1)
    /\ classImpl[1] = <<Impl(1, TRUE, FALSE)>>
    /\ extends[1] = ExtendsObject
    /\ \A i \in Ifaces : ifaceImpl[i] = <<>>

\* C5 (own versus base entries): when get_interfaces returns, every entry whose
\* interface is reachable from the type's own rows has base = false, every other
\* entry has base = true and defaulted = false; for Widget the result is exactly
\* IWidget {defaulted, not base} followed by IControl {not defaulted, base}.
C5_OwnVersusBase ==
    pc = "done" =>
        /\ \A j \in Indices(result) :
              IF result[j].type \in OwnReach
              THEN ~result[j].base
              ELSE result[j].base /\ ~result[j].defaulted
        /\ WidgetScenario =>
              /\ Len(result) = 2
              /\ result[1].name = Name(2) /\ result[1].defaulted /\ ~result[1].base
              /\ result[2].name = Name(1) /\ ~result[2].defaulted /\ result[2].base

\* The Widget run, finished.
C5_Witness == pc = "done" /\ WidgetScenario /\ Len(result) = 2

\* ---- C6 --------------------------------------------------------------------

\* C6 as claimed (termination): every run of get_interfaces returns, whatever
\* the interface-to-interface rows are.
C6_Terminates == <>(pc = "done")

\* C6 amended: every run of get_interfaces over metadata in which no reachable
\* interface requires itself, directly or indirectly, returns.
C6_TerminatesIfAcyclic == AcyclicRequires ~> (pc = "done")

\* A finished run over an acyclic graph in which an interface is named by
\* several rows, so that the merge rule was consulted on a rediscovery.
C6_Witness ==
    /\ pc = "done"
    /\ AcyclicRequires
    /\ \E i \in Ifaces : HasEntry(i) /\ Cardinality(RowsNaming(i)) >= 2
    /\ \E i \in AllReach : ifaceImpl[i] # <<>>

\* ---- C7 --------------------------------------------------------------------

\* C7 (fast-ABI eligibility): every entry marked fastabi is exclusive, not
\* base-sourced and not overridable.
C7_FastabiOnlyEligible ==
    \A j \in Indices(result) : result[j].fastabi => Eligible(result[j])

\* ---- C8 --------------------------------------------------------------------

OrderStep == pc = "layout" /\ pc' = "done" /\ has_fastabi

\* The number of entries count_if counts, read off the entries.
PrefixCount(s) == Cardinality({j \in Indices(s) : s[j].exclusive /\ ~s[j].base /\ ~s[j].overridable})

\* C8 as claimed (the tail is left alone): the ordering step leaves every entry
\* that was at a position after the first prefix_count where it was.
C8_TailUntouched ==
    [][OrderStep =>
          \A j \in (PrefixCount(result) + 1)..Len(result) : result'[j] = result[j]]_vars

\* C8 amended: the ordering step rearranges the whole sequence; it neither adds
\* nor drops nor alters an entry except for the fastabi flag, and every entry
\* after the first prefix_count positions has fastabi = false.
C8_OrderPermutes ==
    [][OrderStep =>
          /\ Len(result') = Len(result)
          /\ \A j \in Indices(result) :
                \E h \in Indices(result') : [result'[h] EXCEPT !.fastabi = FALSE] = result[j]
          /\ \A h \in (PrefixCount(result) + 1)..Len(result') : ~result'[h].fastabi]_vars

\* A finished ordering with a prefix and a tail in which the first position is
\* not held by the interface that was walked first.
C8_Witness ==
    /\ pc = "done"
    /\ has_fastabi
    /\ PrefixCount(result) >= 1
    /\ PrefixCount(result) < Len(result)
    /\ classImpl[0] # <<>>
    /\ result[1].name # Name(classImpl[0][1].iface)

\* ---- C9 --------------------------------------------------------------------

\* C9 (prefix-only fastabi): when get_interfaces returns for a type with fast
\* ABI, every marked entry precedes every unmarked one and exactly prefix_count
\* entries are marked; for a type without, the result is returned as walked
\* and no entry is marked.
C9_PrefixOnlyFastabi ==
    [][pc' = "done" =>
          IF settings_fastabi /\ fastabiAttr
          THEN /\ \A a, b \in Indices(result') :
                     result'[a].fastabi /\ ~result'[b].fastabi => a < b
               /\ Cardinality({j \in Indices(result') : result'[j].fastabi}) = PrefixCount(result')
          ELSE /\ result' = result
               /\ \A j \in Indices(result') : ~result'[j].fastabi]_vars

\* A finished ordering with marked and unmarked entries.
C9_Witness ==
    /\ pc = "done"
    /\ has_fastabi
    /\ \E a, b \in Indices(result) : result[a].fastabi /\ ~result[b].fastabi

\* ---- C10 -------------------------------------------------------------------

B2N(b) == IF b THEN 1 ELSE 0

\* The sort key of an entry: base false first, is_default true first,
\* overridable false first, exclusive true first, always-enabled first,
\* major, minor, name.
SortKey(e) ==
    <<B2N(e.base), B2N(~e.is_default), B2N(e.overridable), B2N(~e.exclusive),
      B2N(~(featureAttr[e.type] \in {"None", "AlwaysEnabled"})),
      e.version[1], e.version[2], e.name>>

\* Lexicographic <= on keys of the same length.
LexLeq(k1, k2) ==
    \/ k1 = k2
    \/ \E p \in Indices(k1) : k1[p] < k2[p] /\ \A q \in 1..(p - 1) : k1[q] = k2[q]

\* Three own exclusive non-overridable interfaces walked with versions (1,0),
\* (1,2), (1,1), and no base.
VersionScenario ==
    /\ AncestorsOf(0) = {}
    /\ Len(classImpl[0]) = 3
    /\ \A j \in 1..3 : ~classImpl[0][j].overridable /\ exclusiveAttr[classImpl[0][j].iface]
    /\ versionAttr[classImpl[0][1].iface] = 65536
    /\ versionAttr[classImpl[0][2].iface] = 65538
    /\ versionAttr[classImpl[0][3].iface] = 65537
    /\ \A j \in 1..3 : featureAttr[classImpl[0][j].iface] = "None"

\* C10 (prefix ordering): when get_interfaces returns for a type with fast ABI,
\* adjacent entries of the first prefix_count positions are in non-decreasing
\* key order; in the version scenario the three come out (1,0), (1,1), (1,2).
C10_PrefixOrdered ==
    (pc = "done" /\ settings_fastabi /\ fastabiAttr) =>
        /\ \A j \in 1..(PrefixCount(result) - 1) :
              LexLeq(SortKey(result[j]), SortKey(result[j + 1]))
        /\ VersionScenario =>
              /\ \A j \in 1..3 : result[j].fastabi
              /\ result[1].version = <<1, 0>>
              /\ result[2].version = <<1, 1>>
              /\ result[3].version = <<1, 2>>

\* The version scenario, ordered.
C10_Witness == pc = "done" /\ has_fastabi /\ VersionScenario /\ Len(result) = 3

\* ---- C11 -------------------------------------------------------------------

\* The sum of m over the interfaces of the entries at the positions in J.
RECURSIVE SumAt(_, _)
SumAt(J, m) ==
    IF J = {} THEN 0
    ELSE LET j == CHOOSE x \in J : TRUE
         IN m[result[j].type] + SumAt(J \ {j}, m)

\* The positions of the leading entries whose fastabi flag is on.
LeadingFastabi == {j \in Indices(result) : \A h \in 1..j : result[h].fastabi}

\* 6 + the classes of the base chain + the methods of the leading fast-ABI entries.
SlotCount == 6 + Cardinality(AncestorsOf(0)) + SumAt(LeadingFastabi, call.methods)

\* C11 as stated: for every type, get_fastabi_size(type) is 6 + the number of
\* classes in the type's base chain + the sum of the method counts of the
\* leading entries of get_interfaces(type) whose fastabi flag is on, up to the
\* first entry whose flag is off.  (A type without fast ABI has no entry whose
\* flag is on: for it the sum is 0.)
C11_SlotCount == pc = "sized" => call.ret = SlotCount

\* C11 amended: for every type that has fast ABI (settings.fastabi and the
\* FastAbiAttribute) get_fastabi_size(type) is that number; for every other
\* type it is 0.
C11_SlotCountIfFastabi ==
    pc = "sized" => call.ret = IF has_fastabi THEN SlotCount ELSE 0

\* A type with fast ABI and a base class, whose result has a fast-ABI entry
\* with methods followed by an entry with methods that is not counted.
C11_Witness ==
    /\ pc = "sized"
    /\ has_fastabi
    /\ AncestorsOf(0) # {}
    /\ \E j \in LeadingFastabi : call.methods[result[j].type] > 0
    /\ \E j \in Indices(result) \ LeadingFastabi : call.methods[result[j].type] > 0
    /\ call.ret > 6 + Cardinality(AncestorsOf(0))

\* ---- C12 -------------------------------------------------------------------

\* A setter accessor: a special-name method whose name begins p, u, t, _.
Setter(method) ==
    /\ method.SpecialName
    /\ Len(method.Name) >= 4
    /\ method.Name[1] = "p" /\ method.Name[2] = "u" /\ method.Name[3] = "t" /\ method.Name[4] = "_"

\* The return type is the reference Windows.Foundation.IAsyncAction or an
\* instantiation of one of the three generic asynchronous interfaces.
AsyncShape(type) ==
    /\ ~type.is_szarray
    /\ type.namespace = "Windows.Foundation"
    /\ \/ type.alt = "TypeDefOrRef" /\ type.name = <<"IAsyncAction", 0>>
       \/ /\ type.alt = "GenericTypeInstSig"
          /\ type.name \in {<<"IAsyncOperation", 1>>, <<"IAsyncActionWithProgress", 1>>,
                            <<"IAsyncOperationWithProgress", 2>>}

\* C12: is_async() is true for every setter accessor whatever it returns;
\* for any other method it is true exactly when the return type is the
\* non-generic Windows.Foundation.IAsyncAction or an instantiation of
\* Windows.Foundation IAsyncOperation`1, IAsyncActionWithProgress`1 or
\* IAsyncOperationWithProgress`2, and false for every other return shape.
C12_AsyncClassification ==
    pc = "returned" /\ call.fn = "is_async" =>
        call.ret = (Setter(call.method) \/ AsyncShape(call.method.ReturnType))

\* ---- C13 -------------------------------------------------------------------

\* A non-array type reference that names no type of the cache and is not
\* System.Guid.
Unresolvable(signature) ==
    /\ ~signature.is_szarray
    /\ signature.alt = "TypeDefOrRef"
    /\ signature.kind = "TypeRef"
    /\ signature.target = "missing"
    /\ ~(signature.namespace = "System" /\ signature.name = <<"Guid", 0>>)

Seven ==
    {"generic_type", "object_type", "string_type", "enum_type", "struct_type",
     "array_type", "fundamental_type"}

\* C13 as stated: for every signature shape (array, primitive element, type
\* definition, type reference whether it resolves or not, bound generic
\* instantiation, unbound generic parameter) get_category returns one of the
\* seven param_category values and never raises.
C13_TotalCategorization ==
    pc = "returned" /\ call.fn = "get_category" =>
        ~call.ret.raised /\ call.ret.category \in Seven

\* C13 amended: get_category raises exactly for a non-array type reference
\* that does not resolve and is not named System.Guid; for every other
\* signature shape it returns one of the seven param_category values.
C13_TotalIfResolvable ==
    pc = "returned" /\ call.fn = "get_category" =>
        /\ call.ret.raised <=> Unresolvable(call.signature)
        /\ ~call.ret.raised => call.ret.category \in Seven

\* A reference named System.Guid that does not resolve has been categorized.
C13_Witness ==
    /\ pc = "returned"
    /\ call.fn = "get_category"
    /\ call.signature.kind = "TypeRef"
    /\ call.signature.target = "missing"
    /\ ~call.signature.is_szarray
    /\ ~call.ret.raised
    /\ call.ret.category = "struct_type"

\* ---- C14 -------------------------------------------------------------------

\* A recognized attribute that lacks its expected argument: an activation,
\* static or composable attribute with no factory type among its arguments, a
\* feature attribute with no stage among its arguments.
Malformed(a) ==
    /\ a.namespace = "Windows.Foundation.Metadata"
    /\ \/ /\ a.name \in {"ActivatableAttribute", "StaticAttribute", "ComposableAttribute"}
          /\ \A j \in Indices(a.FixedArgs) : a.FixedArgs[j].alt # "SystemType"
       \/ /\ a.name = "FeatureAttribute"
          /\ \A j \in Indices(a.FixedArgs) : a.FixedArgs[j].alt # "EnumValue"

\* The attributes of the list that are not malformed, in their order.
RECURSIVE WithoutMalformed(_)
WithoutMalformed(attributes) ==
    IF attributes = <<>> THEN <<>>
    ELSE IF Malformed(Head(attributes)) THEN WithoutMalformed(Tail(attributes))
    ELSE <<Head(attributes)>> \o WithoutMalformed(Tail(attributes))

\* The outcomes of the function called, on another attribute list.
OutcomesOn(attributes) ==
    IF call.fn = "is_always_disabled"
    THEN is_always_disabled(call.component_ignore_velocity, attributes)
    ELSE IF call.fn = "is_always_enabled" THEN is_always_enabled_type(attributes)
    ELSE get_factories(attributes)

\* C14: when a recognized attribute of the type is present but lacks its
\* expected argument, get_factories, is_always_disabled and is_always_enabled
\* return what they return for the type without that attribute, and none of
\* them raises.
C14_MalformedAsAbsent ==
    /\ pc = "returned"
    /\ call.fn \in {"is_always_disabled", "is_always_enabled", "get_factories"}
    /\ \E j \in Indices(call.attributes) : Malformed(call.attributes[j])
    => /\ ~call.ret.raised
       /\ call.ret \in OutcomesOn(WithoutMalformed(call.attributes))

\* ---- C15 -------------------------------------------------------------------

\* The type has direct InterfaceImpl rows and none of them is marked default.
NoDefaultEdge ==
    /\ classImpl[0] # <<>>
    /\ \A j \in Indices(classImpl[0]) : ~classImpl[0][j].is_default

\* The message holds namespace, ".", name one after the other.
CarriesName(message, namespace, name) ==
    \E k \in 1..(Len(message) - 2) :
        message[k] = namespace /\ message[k + 1] = "." /\ message[k + 2] = name

\* What the claim says of get_default_interface: it fails with the qualified
\* name for a type with rows none of which is default; a type without rows is
\* no error; otherwise the first default row in declaration order is returned.
DefaultInterfaceRule ==
    pc = "returned" /\ call.fn = "get_default_interface" =>
        IF NoDefaultEdge
        THEN /\ call.ret.raised
             /\ CarriesName(call.ret.message, call.type.TypeNamespace, call.type.TypeName)
        ELSE /\ ~call.ret.raised
             /\ classImpl[0] = <<>> => call.ret.value = 0
             /\ \A j \in Indices(classImpl[0]) :
                   (classImpl[0][j].is_default /\ \A h \in 1..(j - 1) : ~classImpl[0][h].is_default)
                   => call.ret.value = classImpl[0][j].iface

\* C15 as stated: for a type with one or more direct rows none of which is
\* marked default, resolution fails with an error carrying the type's
\* qualified name instead of returning a result (neither get_default_interface
\* nor get_interfaces returns one); a type with no rows is not an error, and
\* the first default row in declaration order is the default interface.
C15_MissingDefaultFatal ==
    /\ DefaultInterfaceRule
    /\ NoDefaultEdge => pc # "done"

\* C15 amended: get_default_interface(type) fails with an error carrying
\* namespace.name for a type with rows none of which is marked default,
\* returns the null index for a type without rows, and otherwise returns the
\* interface of the first default row; get_interfaces(w, type) does not ask
\* for a default row and raises no such error.
C15_DefaultInterfaceOnly ==
    /\ DefaultInterfaceRule
    /\ pc \in {"impl", "layout", "done", "overflow"} => call = NoCall

\* get_default_interface has failed on a type with rows and no default row.
C15_Witness ==
    /\ pc = "returned"
    /\ call.fn = "get_default_interface"
    /\ NoDefaultEdge
    /\ Len(classImpl[0]) >= 2
    /\ call.ret.raised

\* ---- C16 -------------------------------------------------------------------

\* A step taken while get_interfaces walks the rows of an ancestor class.
BaseWalkStep == pc = "impl" /\ frames # <<>> /\ frames[1].base

\* C16 (own before base): no step of the walk of an ancestor class changes an
\* entry that is in the result, in any field or in its position; such a step
\* only appends entries, and only for keys the result does not hold yet.
C16_OwnBeforeBase ==
    [][BaseWalkStep =>
          /\ Len(result') >= Len(result)
          /\ \A j \in Indices(result) : result'[j] = result[j]
          /\ \A j \in (Len(result) + 1)..Len(result') :
                \A h \in Indices(result) : result[h].name # result'[j].name]_vars

\* The walks of the base classes are over; a base class has a default row for
\* an interface that the type's own walk had entered as not defaulted, and the
\* entry is still the own one.
C16_Witness ==
    /\ pc = "layout"
    /\ \E k \in AncestorsOf(0) : \E j \in Indices(classImpl[k]) :
          /\ classImpl[k][j].is_default
          /\ HasEntry(classImpl[k][j].iface)
          /\ ~Entry(classImpl[k][j].iface).base
          /\ ~Entry(classImpl[k][j].iface).defaulted

====
